---- MODULE Spec2Model ----
(***************************************************************************)
(* ShippingProfileService (packages/medusa/src/services/shipping-profile.js)*)
(* as a state machine.  The document store holds the profile records; every *)
(* service call is a sequence of steps, one per store or collaborator call  *)
(* it awaits.  Ids are opaque values compared by equality.  The document    *)
(* store follows the MongoDB update operators the service sends: $set stores*)
(* the value given, $push appends, $pull removes every equal element, an    *)
(* update whose selector matches no record changes nothing and succeeds.    *)
(***************************************************************************)
EXTENDS Integers, Sequences, FiniteSets, TLC

\* Number of service calls started in one behaviour.
MaxCalls == 3
\* Line items of a cart, and sub-items of one line item.
MaxItems == 2
MaxSub == 2

Threads == {1, 2}

\* ---------------------------------------------------------------- values
\* Well-formed profile ids; "p3" names no profile.  "bad" is not an ObjectId.
ProfileIds == {"p1", "p2", "p3"}
RawIds == ProfileIds \cup {"bad"}
\* Products and options the collaborators resolve; "xx" / "ox" are unknown.
ProductIds == {"x1", "x2"}
RawProductIds == ProductIds \cup {"xx"}
OptionIds == {"o1", "o2"}
RawOptionIds == OptionIds \cup {"ox"}
MetaKeys == {"k1", "k2"}
MetaVals == {"v1", "v2"}
NoVal == "-"

\* JavaScript values, tagged by kind.
Undef == [t |-> "undef"]
JNull == [t |-> "null"]
Str(s) == [t |-> "str", v |-> s]
Num(n) == [t |-> "num", v |-> n]
Arr(s) == [t |-> "arr", v |-> s]
Obj(m) == [t |-> "obj", v |-> m]

\* JavaScript truthiness, as the `if (update.x)` guards evaluate it.
Truthy(v) ==
  CASE v.t = "undef" -> FALSE
    [] v.t = "null" -> FALSE
    [] v.t = "str" -> v.v # ""
    [] v.t = "num" -> v.v # 0
    [] OTHER -> TRUE

Range(s) == {s[i] : i \in 1..Len(s)}

\* Members of a stored list field (null holds nothing).
Members(f) == IF f.t = "arr" THEN Range(f.v) ELSE {}

EmptyMeta == [k \in MetaKeys |-> NoVal]

\* ----------------------------------------------------------------- store
Absent == [t |-> "absent"]

\* A profile as created externally: empty product and option lists.
NewProfile(id) ==
  [t |-> "doc", _id |-> id, name |-> Str("n1"), products |-> Arr(<<>>),
   shipping_options |-> Arr(<<>>), metadata |-> Obj(EmptyMeta)]

InitStore == [p \in ProfileIds |-> IF p = "p3" THEN Absent ELSE NewProfile(p)]

Exists(st, id) == id \in ProfileIds /\ st[id] # Absent

\* Document store operations.  Each returns [ok, st]: whether the store
\* accepted the operation, and the store after it.

\* updateOne({_id}, {$set: update}): every key the update object carries is
\* stored as given.
FieldNames == {"name", "metadata", "products", "shipping_options"}

SetFields(st, id, update) ==
  IF ~Exists(st, id) THEN [ok |-> TRUE, st |-> st]
  ELSE [ok |-> TRUE,
        st |-> [st EXCEPT ![id] =
                 [f \in DOMAIN st[id] |->
                    IF f \in FieldNames /\ update[f] # Undef
                    THEN update[f] ELSE st[id][f]]]]

\* Mutant of SetMetaKey: the $set names metadata itself, so the object is
\* replaced by one that holds the new key only.
SetMetaKey_wholeObject(st, id, key, value) ==
  IF ~Exists(st, id) THEN [ok |-> TRUE, st |-> st]
  ELSE IF st[id].metadata.t # "obj" THEN [ok |-> FALSE, st |-> st]
  ELSE [ok |-> TRUE,
        st |-> [st EXCEPT ![id].metadata = Obj([EmptyMeta EXCEPT ![key] = value])]]

\* updateOne({_id}, {$set: {"metadata.<key>": value}}): the other keys of
\* metadata are kept; a metadata field that is not an object is refused.
SetMetaKey(st, id, key, value) ==
  IF ~Exists(st, id) THEN [ok |-> TRUE, st |-> st]
  ELSE IF st[id].metadata.t # "obj" THEN [ok |-> FALSE, st |-> st]
  ELSE [ok |-> TRUE,
        st |-> [st EXCEPT ![id].metadata =
                 Obj([st[id].metadata.v EXCEPT ![key] = value])]]

\* updateOne({_id}, {$push: {field: x}}): appends, whether or not x is there.
Push(st, id, field, x) ==
  IF ~Exists(st, id) THEN [ok |-> TRUE, st |-> st]
  ELSE IF st[id][field].t # "arr" THEN [ok |-> FALSE, st |-> st]
  ELSE [ok |-> TRUE,
        st |-> [st EXCEPT ![id][field] = Arr(Append(st[id][field].v, x))]]

\* Mutant of Pull: the list is emptied instead of losing the one element.
Pull_wholeList(st, id, field, x) ==
  IF ~Exists(st, id) THEN [ok |-> TRUE, st |-> st]
  ELSE IF st[id][field].t # "arr" THEN [ok |-> FALSE, st |-> st]
  ELSE [ok |-> TRUE, st |-> [st EXCEPT ![id][field] = Arr(<<>>)]]

\* Mutant of Pull: the $pull names no element of the list and removes nothing.
Pull_nothing(st, id, field, x) == [ok |-> TRUE, st |-> st]

\* updateOne({_id}, {$pull: {field: x}}): removes every element equal to x.
Pull(st, id, field, x) ==
  IF ~Exists(st, id) THEN [ok |-> TRUE, st |-> st]
  ELSE IF st[id][field].t # "arr" THEN [ok |-> FALSE, st |-> st]
  ELSE [ok |-> TRUE,
        st |-> [st EXCEPT ![id][field] =
                 Arr(SelectSeq(st[id][field].v, LAMBDA e : e # x))]]

\* deleteOne({_id}).
DeleteOne(st, id) == [st EXCEPT ![id] = Absent]

\* Mutant of Matching: the selector is dropped and every profile matches.
Matching_everyProfile(st, field, ids) == {p \in ProfileIds : Exists(st, p)}

\* find(selector) for a membership selector: the ids of the profiles whose
\* list `field` holds one of `ids`.
Matching(st, field, ids) ==
  {p \in ProfileIds : Exists(st, p) /\ Members(st[p][field]) \cap ids # {}}

\* The orders in which find may return a set of records.
Orders(S) ==
  {s \in [1..Cardinality(S) -> S] : \A i, j \in 1..Cardinality(S) : i # j => s[i] # s[j]}

\* ----------------------------------------------------------------- state
VARIABLES
  store,   \* profile id -> profile record, or Absent
  call,    \* thread -> the service call it runs (or last ran)
  ncalls   \* service calls started so far

vars == <<store, call, ncalls>>

NoFields == [f \in FieldNames |-> Undef]

NoPrev == [op |-> "none", pid |-> "-", xid |-> "-", ok |-> FALSE]

IdleCall ==
  [pc |-> "idle", op |-> "none", pid |-> "-", xid |-> "-", key |-> Undef,
   val |-> NoVal, fields |-> NoFields, cart |-> <<>>,
   profile |-> Absent, holder |-> "-",
   status |-> "none", value |-> <<>>,
   found |-> <<>>, passing |-> {}, sel |-> {}, expand |-> {},
   pre |-> InitStore, faulted |-> FALSE, nstore |-> 0, serial |-> 0,
   prev |-> NoPrev]

Init ==
  /\ store = InitStore
  /\ call = [t \in Threads |-> IdleCall]
  /\ ncalls = 0

\* A thread may start a call when it runs none.
CanCall(t) == call[t].pc = "idle" /\ ncalls < MaxCalls

\* What a call remembers of the call made before it: the operation and its
\* arguments, for a membership operation or a delete the store did not fault on.
Summary(c) ==
  IF c.op \in {"addProduct", "removeProduct", "addShippingOption",
              "removeShippingOption", "delete"} /\ ~c.faulted
  THEN [op |-> c.op, pid |-> c.pid, xid |-> c.xid, ok |-> c.status = "ok"]
  ELSE NoPrev

\* The record of a call that starts now.  It remembers the call before it when
\* that was the same operation on the same product or option; `serial` is the
\* number of this call when no other caller has a call running, else 0.
Started(t, opname, id, x) ==
  [IdleCall EXCEPT !.op = opname, !.pid = id, !.xid = x, !.pre = store,
                   !.serial = IF \A u \in Threads \ {t} : call[u].pc = "idle"
                              THEN ncalls + 1 ELSE 0,
                   !.prev = IF call[t].prev.op = opname /\ call[t].prev.xid = x
                            THEN call[t].prev ELSE NoPrev]

\* The caller takes the result of the call that ended.
Return(t) ==
  /\ call[t].pc = "done"
  /\ call' = [call EXCEPT ![t] = [IdleCall EXCEPT !.prev = Summary(call[t])]]
  /\ UNCHANGED <<store, ncalls>>

\* The call ends: resolved ("ok") or rejected/thrown with an error type.
Ended(c, st, v) == [c EXCEPT !.pc = "done", !.status = st, !.value = v]

\* One store call was made; `f` tells whether the store faulted on it.
Stored(c, f) == [c EXCEPT !.nstore = @ + 1, !.faulted = @ \/ f]

\* ------------------------------------------------- retrieve, update, delete
\* validateId_: the id is cast to an ObjectId; error when the cast fails.
validateId_(rawId) == [error |-> rawId \notin ProfileIds, value |-> rawId]

\* retrieve's synchronous start: validateId_ throws, or findOne is sent.
BeginRetrieve(c) ==
  IF validateId_(c.pid).error THEN Ended(c, "INVALID_ARGUMENT", <<>>)
  ELSE [c EXCEPT !.pc = "findOne"]

\* How retrieve ends once findOne answers (f: the store faulted).
retrieveOutcome(st, id, f) ==
  IF f THEN "DB_ERROR"
  ELSE IF ~Exists(st, id) THEN "NOT_FOUND"
  ELSE "ok"

retrieve(t, profileId) ==
  /\ CanCall(t)
  /\ call' = [call EXCEPT ![t] = BeginRetrieve(Started(t, "retrieve", profileId, "-"))]
  /\ ncalls' = ncalls + 1
  /\ UNCHANGED store

retrieve_findOne(t) ==
  /\ call[t].pc = "findOne" /\ call[t].op = "retrieve"
  /\ \E f \in BOOLEAN :
       LET c == Stored(call[t], f)
           out == retrieveOutcome(store, c.pid, f)
       IN call' = [call EXCEPT ![t] =
                     IF out = "ok"
                     THEN Ended([c EXCEPT !.profile = store[c.pid]], "ok", <<>>)
                     ELSE Ended(c, out, <<>>)]
  /\ UNCHANGED <<store, ncalls>>

\* Mutant of updateCheck: the guarded fields are checked before the id.
updateCheck_guardsFirst(profileId, upd) ==
  IF Truthy(upd.metadata) \/ Truthy(upd.products) \/ Truthy(upd.shipping_options)
  THEN "INVALID_DATA"
  ELSE IF validateId_(profileId).error THEN "INVALID_ARGUMENT"
  ELSE "ok"

\* update's synchronous checks, in the order the code makes them.
updateCheck(profileId, upd) ==
  IF validateId_(profileId).error THEN "INVALID_ARGUMENT"
  ELSE IF Truthy(upd.metadata) THEN "INVALID_DATA"
  ELSE IF Truthy(upd.products) THEN "INVALID_DATA"
  ELSE IF Truthy(upd.shipping_options) THEN "INVALID_DATA"
  ELSE "ok"

Upd(f, v) == [NoFields EXCEPT ![f] = v]

\* The update objects tried: a plain field, and each guarded field with a
\* null, an empty and a non-empty value.
UpdateInputs ==
  {Upd("name", Str("n2"))}
  \cup {Upd("metadata", v) : v \in {JNull, Obj(EmptyMeta), Obj([k \in MetaKeys |-> "v1"])}}
  \cup {Upd("products", v) : v \in {JNull, Arr(<<>>), Arr(<<"x1">>)}}
  \cup {Upd("shipping_options", v) : v \in {JNull, Arr(<<>>), Arr(<<"o1">>)}}
  \cup {[NoFields EXCEPT !["name"] = Str("n2"), !["products"] = Arr(<<>>)]}

update(t, profileId, upd) ==
  /\ CanCall(t)
  /\ LET c == [Started(t, "update", profileId, "-") EXCEPT !.fields = upd]
         chk == updateCheck(profileId, upd)
     IN call' = [call EXCEPT ![t] =
                   IF chk = "ok" THEN [c EXCEPT !.pc = "updateOne"]
                   ELSE Ended(c, chk, <<>>)]
  /\ ncalls' = ncalls + 1
  /\ UNCHANGED store

update_updateOne(t) ==
  /\ call[t].pc = "updateOne" /\ call[t].op = "update"
  /\ \E f \in BOOLEAN :
       LET c == Stored(call[t], f)
           r == SetFields(store, c.pid, c.fields)
       IN IF f
          THEN /\ call' = [call EXCEPT ![t] = Ended(c, "DB_ERROR", <<>>)]
               /\ UNCHANGED store
          ELSE /\ call' = [call EXCEPT ![t] = Ended(c, "ok", <<>>)]
               /\ store' = r.st
  /\ UNCHANGED ncalls

\* Mutant of deleteAfterRetrieve: the error of retrieve is passed on.
deleteAfterRetrieve_rethrow(c, out) ==
  IF out = "ok" THEN [c EXCEPT !.pc = "deleteOne"] ELSE Ended(c, out, <<>>)

\* delete: any error of retrieve is caught and the call resolves.
deleteAfterRetrieve(c, out) ==
  IF out = "ok" THEN [c EXCEPT !.pc = "deleteOne"] ELSE Ended(c, "ok", <<>>)

delete(t, profileId) ==
  /\ CanCall(t)
  /\ LET c == Started(t, "delete", profileId, "-")
     IN call' = [call EXCEPT ![t] =
                   IF validateId_(profileId).error
                   THEN deleteAfterRetrieve(c, "INVALID_ARGUMENT")
                   ELSE [c EXCEPT !.pc = "findOne"]]
  /\ ncalls' = ncalls + 1
  /\ UNCHANGED store

delete_findOne(t) ==
  /\ call[t].pc = "findOne" /\ call[t].op = "delete"
  /\ \E f \in BOOLEAN :
       LET c == Stored(call[t], f)
       IN call' = [call EXCEPT ![t] =
                     deleteAfterRetrieve(c, retrieveOutcome(store, c.pid, f))]
  /\ UNCHANGED <<store, ncalls>>

delete_deleteOne(t) ==
  /\ call[t].pc = "deleteOne" /\ call[t].op = "delete"
  /\ \E f \in BOOLEAN :
       LET c == Stored(call[t], f)
       IN IF f
          THEN /\ call' = [call EXCEPT ![t] = Ended(c, "DB_ERROR", <<>>)]
               /\ UNCHANGED store
          ELSE /\ call' = [call EXCEPT ![t] = Ended(c, "ok", <<>>)]
               /\ store' = DeleteOne(store, c.pid)
  /\ UNCHANGED ncalls

\* setMetadata's synchronous checks.
setMetadataCheck(profileId, key) ==
  IF validateId_(profileId).error THEN "INVALID_ARGUMENT"
  ELSE IF key.t # "str" THEN "INVALID_ARGUMENT"
  ELSE "ok"

\* Metadata keys tried: the string keys and a number.
KeyInputs == {Str(k) : k \in MetaKeys} \cup {Num(7)}
\* The keys tried next to all other operations: one string key and a number.
KeyInputsOne == {Str("k1"), Num(7)}

setMetadata(t, profileId, key, value) ==
  /\ CanCall(t)
  /\ LET c == [Started(t, "setMetadata", profileId, "-") EXCEPT !.key = key, !.val = value]
         chk == setMetadataCheck(profileId, key)
     IN call' = [call EXCEPT ![t] =
                   IF chk = "ok" THEN [c EXCEPT !.pc = "updateOne"]
                   ELSE Ended(c, chk, <<>>)]
  /\ ncalls' = ncalls + 1
  /\ UNCHANGED store

setMetadata_updateOne(t) ==
  /\ call[t].pc = "updateOne" /\ call[t].op = "setMetadata"
  /\ \E f \in BOOLEAN :
       LET r == SetMetaKey(store, call[t].pid, call[t].key.v, call[t].val)
           c == Stored(call[t], f \/ ~r.ok)
       IN IF f \/ ~r.ok
          THEN /\ call' = [call EXCEPT ![t] = Ended(c, "DB_ERROR", <<>>)]
               /\ UNCHANGED store
          ELSE /\ call' = [call EXCEPT ![t] = Ended(c, "ok", <<>>)]
               /\ store' = r.st
  /\ UNCHANGED ncalls

\* ---------------------------------------------------- membership operations
\* list.find(e => e === x) on a stored list: a TypeError on a list that is
\* null, else whether an element was found.
memberCheck(list, x) ==
  IF list.t # "arr" THEN "TypeError"
  ELSE IF x \in Range(list.v) THEN "found"
  ELSE "missing"

\* A write the code sends without a catch: the store's own error is what the
\* caller gets (status "STORE_ERROR", not a MedusaError).
Write(t, r, f) ==
  LET c == Stored(call[t], f \/ ~r.ok)
  IN IF f \/ ~r.ok
     THEN /\ call' = [call EXCEPT ![t] = Ended(c, "STORE_ERROR", <<>>)]
          /\ UNCHANGED store
     ELSE /\ call' = [call EXCEPT ![t] = Ended(c, "ok", <<>>)]
          /\ store' = r.st

\* retrieve inside a membership operation: the profile read is kept, or the
\* operation ends with retrieve's error.
AfterRetrieve(c, st, f, nextpc) ==
  LET out == retrieveOutcome(st, c.pid, f)
  IN IF out = "ok" THEN [c EXCEPT !.profile = st[c.pid], !.pc = nextpc]
     ELSE Ended(c, out, <<>>)

addProduct(t, profileId, productId) ==
  /\ CanCall(t)
  /\ call' = [call EXCEPT ![t] =
                BeginRetrieve(Started(t, "addProduct", profileId, productId))]
  /\ ncalls' = ncalls + 1
  /\ UNCHANGED store

addProduct_findOne(t) ==
  /\ call[t].pc = "findOne" /\ call[t].op = "addProduct"
  /\ \E f \in BOOLEAN :
       call' = [call EXCEPT ![t] =
                  AfterRetrieve(Stored(call[t], f), store, f, "productRetrieve")]
  /\ UNCHANGED <<store, ncalls>>

\* productService_.retrieve answers; then the membership check on the
\* profile read earlier decides between returning and sending the $push.
addProductCheck(c) ==
  IF c.xid \notin ProductIds THEN Ended(c, "NOT_FOUND", <<>>)
  ELSE LET m == memberCheck(c.profile.products, c.xid)
       IN IF m = "TypeError" THEN Ended(c, "TypeError", <<>>)
          ELSE IF m = "found" THEN Ended(c, "ok", <<>>)
          ELSE [c EXCEPT !.pc = "push"]

addProduct_productRetrieve(t) ==
  /\ call[t].pc = "productRetrieve" /\ call[t].op = "addProduct"
  /\ call' = [call EXCEPT ![t] = addProductCheck(call[t])]
  /\ UNCHANGED <<store, ncalls>>

\* Mutant of addProduct_push: the $push names the option list.
addProduct_push_optionList(t) ==
  /\ call[t].pc = "push" /\ call[t].op = "addProduct"
  /\ \E f \in BOOLEAN :
       Write(t, Push(store, call[t].profile._id, "shipping_options", call[t].xid), f)
  /\ UNCHANGED ncalls

addProduct_push(t) ==
  /\ call[t].pc = "push" /\ call[t].op = "addProduct"
  /\ \E f \in BOOLEAN :
       Write(t, Push(store, call[t].profile._id, "products", call[t].xid), f)
  /\ UNCHANGED ncalls

removeProduct(t, profileId, productId) ==
  /\ CanCall(t)
  /\ call' = [call EXCEPT ![t] =
                BeginRetrieve(Started(t, "removeProduct", profileId, productId))]
  /\ ncalls' = ncalls + 1
  /\ UNCHANGED store

\* After retrieve: nothing to do when the product is not a member.
removeProductCheck(c) ==
  IF c.pc = "done" THEN c
  ELSE LET m == memberCheck(c.profile.products, c.xid)
       IN IF m = "TypeError" THEN Ended(c, "TypeError", <<>>)
          ELSE IF m = "missing" THEN Ended(c, "ok", <<>>)
          ELSE [c EXCEPT !.pc = "pull"]

removeProduct_findOne(t) ==
  /\ call[t].pc = "findOne" /\ call[t].op = "removeProduct"
  /\ \E f \in BOOLEAN :
       call' = [call EXCEPT ![t] =
                  removeProductCheck(AfterRetrieve(Stored(call[t], f), store, f, "check"))]
  /\ UNCHANGED <<store, ncalls>>

removeProduct_pull(t) ==
  /\ call[t].pc = "pull" /\ call[t].op = "removeProduct"
  /\ \E f \in BOOLEAN :
       Write(t, Pull(store, call[t].profile._id, "products", call[t].xid), f)
  /\ UNCHANGED ncalls

removeShippingOption(t, profileId, optionId) ==
  /\ CanCall(t)
  /\ call' = [call EXCEPT ![t] =
                BeginRetrieve(Started(t, "removeShippingOption", profileId, optionId))]
  /\ ncalls' = ncalls + 1
  /\ UNCHANGED store

removeShippingOption_findOne(t) ==
  /\ call[t].pc = "findOne" /\ call[t].op = "removeShippingOption"
  /\ \E f \in BOOLEAN :
       call' = [call EXCEPT ![t] = AfterRetrieve(Stored(call[t], f), store, f, "pull")]
  /\ UNCHANGED <<store, ncalls>>

removeShippingOption_pull(t) ==
  /\ call[t].pc = "pull" /\ call[t].op = "removeShippingOption"
  /\ \E f \in BOOLEAN :
       Write(t, Pull(store, call[t].pid, "shipping_options", call[t].xid), f)
  /\ UNCHANGED ncalls

addShippingOption(t, profileId, optionId) ==
  /\ CanCall(t)
  /\ call' = [call EXCEPT ![t] =
                BeginRetrieve(Started(t, "addShippingOption", profileId, optionId))]
  /\ ncalls' = ncalls + 1
  /\ UNCHANGED store

addShippingOption_findOne(t) ==
  /\ call[t].pc = "findOne" /\ call[t].op = "addShippingOption"
  /\ \E f \in BOOLEAN :
       call' = [call EXCEPT ![t] =
                  AfterRetrieve(Stored(call[t], f), store, f, "optionRetrieve")]
  /\ UNCHANGED <<store, ncalls>>

\* Mutant of addShippingOptionCheck: the answer of shippingOptionService_
\* is not awaited, an option it cannot resolve is treated like any other.
addShippingOptionCheck_notAwaited(c) ==
  LET m == memberCheck(c.profile.shipping_options, c.xid)
  IN IF m = "TypeError" THEN Ended(c, "TypeError", <<>>)
     ELSE IF m = "found" THEN Ended(c, "ok", <<>>)
     ELSE [c EXCEPT !.pc = "list"]

\* shippingOptionService_.retrieve answers; then the membership check on the
\* profile read earlier decides between returning and querying the holders.
addShippingOptionCheck(c) ==
  IF c.xid \notin OptionIds THEN Ended(c, "NOT_FOUND", <<>>)
  ELSE LET m == memberCheck(c.profile.shipping_options, c.xid)
       IN IF m = "TypeError" THEN Ended(c, "TypeError", <<>>)
          ELSE IF m = "found" THEN Ended(c, "ok", <<>>)
          ELSE [c EXCEPT !.pc = "list"]

addShippingOption_optionRetrieve(t) ==
  /\ call[t].pc = "optionRetrieve" /\ call[t].op = "addShippingOption"
  /\ call' = [call EXCEPT ![t] = addShippingOptionCheck(call[t])]
  /\ UNCHANGED <<store, ncalls>>

\* Mutant of afterList: the holder found is not detached.
afterList_noDetach(c, profiles) == [c EXCEPT !.pc = "push"]

\* After list({shipping_options: id}) answered `profiles`: the option is
\* removed from profiles[0] when there is one, else the $push is sent.
afterList(c, profiles) ==
  IF Len(profiles) > 0
  THEN [c EXCEPT !.holder = profiles[1], !.pc = "rm_findOne"]
  ELSE [c EXCEPT !.pc = "push"]

addShippingOption_list(t) ==
  /\ call[t].pc = "list" /\ call[t].op = "addShippingOption"
  /\ \E f \in BOOLEAN :
     \E profiles \in Orders(Matching(store, "shipping_options", {call[t].xid})) :
       LET c == Stored(call[t], f)
       IN call' = [call EXCEPT ![t] =
                     IF f THEN Ended(c, "STORE_ERROR", <<>>) ELSE afterList(c, profiles)]
  /\ UNCHANGED <<store, ncalls>>

\* removeShippingOption(profiles[0]._id, id), called inside addShippingOption:
\* its retrieve of the holder ...
addShippingOption_rmFindOne(t) ==
  /\ call[t].pc = "rm_findOne" /\ call[t].op = "addShippingOption"
  /\ \E f \in BOOLEAN :
       LET c == Stored(call[t], f)
           out == retrieveOutcome(store, c.holder, f)
       IN call' = [call EXCEPT ![t] =
                     IF out = "ok" THEN [c EXCEPT !.pc = "rm_pull"]
                     ELSE Ended(c, out, <<>>)]
  /\ UNCHANGED <<store, ncalls>>

\* ... and its $pull on the holder, after which the $push is sent.
addShippingOption_rmPull(t) ==
  /\ call[t].pc = "rm_pull" /\ call[t].op = "addShippingOption"
  /\ \E f \in BOOLEAN :
       LET r == Pull(store, call[t].holder, "shipping_options", call[t].xid)
           c == Stored(call[t], f \/ ~r.ok)
       IN IF f \/ ~r.ok
          THEN /\ call' = [call EXCEPT ![t] = Ended(c, "STORE_ERROR", <<>>)]
               /\ UNCHANGED store
          ELSE /\ call' = [call EXCEPT ![t] = [c EXCEPT !.pc = "push"]]
               /\ store' = r.st
  /\ UNCHANGED ncalls

addShippingOption_push(t) ==
  /\ call[t].pc = "push" /\ call[t].op = "addShippingOption"
  /\ \E f \in BOOLEAN :
       Write(t, Push(store, call[t].pid, "shipping_options", call[t].xid), f)
  /\ UNCHANGED ncalls

\* ------------------------------------------------------- cart resolution
\* A line item's content: one product, or an array of sub-items.
Single(x) == [t |-> "item", product |-> x]
Bundle(xs) == Arr([i \in 1..Len(xs) |-> [product |-> xs[i]]])

Carts ==
  { <<>>,
    <<Single("xx")>>,
    <<Single("x1")>>,
    <<Single("x2"), Single("x1")>>,
    <<Bundle(<<"x1", "x2">>)>>,
    <<Single("x1"), Bundle(<<"x2", "x1">>), Single("x2")>> }

\* Every cart of up to MaxItems line items, each a single product or an array
\* of up to MaxSub sub-items.
SeqsUpTo(S, n) == UNION {[1..k -> S] : k \in 0..n}
LineItems ==
  {Single(x) : x \in ProductIds} \cup {Bundle(xs) : xs \in SeqsUpTo(ProductIds, MaxSub)}
AllCarts == SeqsUpTo(LineItems, MaxItems)

\* Mutant of pushNew: the id is pushed without the includes test.
pushNew_unchecked(acc, id) == Append(acc, id)

\* if (!acc.includes(id)) acc.push(id)
pushNew(acc, id) == IF id \in Range(acc) THEN acc ELSE Append(acc, id)

RECURSIVE forEachProduct(_, _, _)
forEachProduct(acc, subitems, i) ==
  IF i > Len(subitems) THEN acc
  ELSE forEachProduct(pushNew(acc, subitems[i].product), subitems, i + 1)

RECURSIVE reduceItems(_, _, _)
reduceItems(acc, items, i) ==
  IF i > Len(items) THEN acc
  ELSE reduceItems(
         IF items[i].t = "arr" THEN forEachProduct(acc, items[i].v, 1)
         ELSE pushNew(acc, items[i].product),
         items, i + 1)

getProductsInCart_(cart) == reduceItems(<<>>, cart, 1)

\* getProductsInCart_ called on its own.
getProductsInCart(t, cart) ==
  /\ CanCall(t)
  /\ call' = [call EXCEPT ![t] =
                Ended([Started(t, "getProductsInCart_", "-", "-") EXCEPT !.cart = cart],
                      "ok", getProductsInCart_(cart))]
  /\ ncalls' = ncalls + 1
  /\ UNCHANGED store

\* acc.concat(v) on an array; any other receiver has no concat method.
concat(acc, v) ==
  IF acc.t # "arr" THEN [threw |-> TRUE, value |-> acc]
  ELSE [threw |-> FALSE,
        value |-> IF v.t = "arr" THEN Arr(acc.v \o v.v) ELSE Arr(Append(acc.v, v))]

RECURSIVE reduceFrom(_, _, _)
reduceFrom(acc, arr, i) ==
  IF i > Len(arr) THEN [threw |-> FALSE, value |-> acc]
  ELSE LET r == concat(acc, arr[i].shipping_options)
       IN IF r.threw THEN r ELSE reduceFrom(r.value, arr, i + 1)

\* profiles.reduce((acc, next) => acc.concat(next.shipping_options)) with no
\* initial value: an empty array throws, else the fold starts from profiles[0].
reduceOptionIds(profiles) ==
  IF Len(profiles) = 0 THEN [threw |-> TRUE, value |-> Undef]
  ELSE reduceFrom(profiles[1], profiles, 2)

\* The records of the ids that validateCartOption accepts, in the order of ids.
validated(ids, passing) ==
  LET kept == SelectSeq(ids, LAMBDA o : o \in passing)
  IN [i \in 1..Len(kept) |-> [_id |-> kept[i]]]

\* fetchCartOptions once list answered `profiles` (records, in the order
\* returned); `passing` are the options validateCartOption accepts.
fetchAfterList(c, profiles, passing) ==
  LET r == reduceOptionIds(profiles)
  IN IF r.threw THEN Ended(c, "TypeError", <<>>)
     ELSE IF r.value.t # "arr" THEN Ended(c, "TypeError", <<>>)
     ELSE Ended(c, "ok", validated(r.value.v, passing))

fetchCartOptions(t, cart) ==
  /\ CanCall(t)
  /\ call' = [call EXCEPT ![t] =
                [Started(t, "fetchCartOptions", "-", "-") EXCEPT !.cart = cart, !.pc = "find"]]
  /\ ncalls' = ncalls + 1
  /\ UNCHANGED store

fetchCartOptions_find(t) ==
  /\ call[t].pc = "find" /\ call[t].op = "fetchCartOptions"
  /\ \E f \in BOOLEAN, passing \in SUBSET OptionIds :
     \E ids \in Orders(Matching(store, "products", Range(getProductsInCart_(call[t].cart)))) :
       LET c == [Stored(call[t], f) EXCEPT !.found = ids, !.passing = passing]
           profiles == [i \in 1..Len(ids) |-> store[ids[i]]]
       IN call' = [call EXCEPT ![t] =
                     IF f THEN Ended(c, "STORE_ERROR", <<>>)
                     ELSE fetchAfterList(c, profiles, passing)]
  /\ UNCHANGED <<store, ncalls>>

\* ---------------------------------------------------------------- decorate
\* _.pick(object, paths): the properties of object that paths names.
pick(object, paths) == [k \in paths \cap DOMAIN object |-> object[k]]

\* object[k] = v
Put(object, k, v) ==
  [x \in DOMAIN object \cup {k} |-> IF x = k THEN v ELSE object[x]]

\* productService_.retrieve / shippingOptionService_.retrieve: the record of
\* a known id; rejected for an unknown one.
resolve(kind, known, id) ==
  IF id \in known THEN [threw |-> FALSE, value |-> [t |-> kind, _id |-> id]]
  ELSE [threw |-> TRUE, value |-> Undef]

\* Mutant of resolveAll: a retrieve that is rejected is left out of the result.
resolveAll_skipRejected(kind, known, ids) ==
  LET kept == SelectSeq(ids, LAMBDA x : x \in known)
  IN [threw |-> FALSE,
      value |-> [i \in 1..Len(kept) |-> resolve(kind, known, kept[i]).value]]

\* Promise.all(ids.map(id => service.retrieve(id))): the records in the order
\* of ids, rejected as soon as one retrieve is.
resolveAll(kind, known, ids) ==
  IF \E i \in 1..Len(ids) : resolve(kind, known, ids[i]).threw
  THEN [threw |-> TRUE, value |-> <<>>]
  ELSE [threw |-> FALSE,
        value |-> [i \in 1..Len(ids) |-> resolve(kind, known, ids[i]).value]]

\* The profiles handed to decorate: records as retrieve answers them, whose
\* lists name known and unknown products and options.
DecorateProfiles ==
  {[NewProfile("p1") EXCEPT !.products = Arr(ps), !.shipping_options = Arr(os)] :
     ps \in {<<>>, <<"x1", "x2">>, <<"x2", "x1">>, <<"x1", "xx">>},
     os \in {<<>>, <<"o2", "o1">>, <<"o1", "ox">>}}
DecorateFields == {{}, {"name"}, {"products"}, {"name", "shipping_options", "foo"}}
DecorateExpands ==
  {{}, {"products"}, {"shipping_options"}, {"products", "shipping_options"}, {"name"}}

\* decorate after the product expansion, or when there is none.
decorate_afterProducts(c) ==
  IF "shipping_options" \in c.expand THEN [c EXCEPT !.pc = "expandOptions"]
  ELSE Ended(c, "ok", c.value)

decorate_afterPick(c) ==
  IF "products" \in c.expand THEN [c EXCEPT !.pc = "expandProducts"]
  ELSE decorate_afterProducts(c)

decorate(t, profile, fields, expandFields) ==
  /\ CanCall(t)
  /\ LET requiredFields == {"_id", "metadata"}
         c == [Started(t, "decorate", "-", "-") EXCEPT
                 !.profile = profile, !.sel = fields, !.expand = expandFields,
                 !.value = pick(profile, fields \cup requiredFields)]
     IN call' = [call EXCEPT ![t] = decorate_afterPick(c)]
  /\ ncalls' = ncalls + 1
  /\ UNCHANGED store

\* One expansion: `field` of the decorated object becomes the resolved records.
expanded(c, field, kind, known) ==
  IF c.profile[field].t # "arr" THEN [threw |-> TRUE, status |-> "TypeError", c |-> c]
  ELSE LET r == resolveAll(kind, known, c.profile[field].v)
       IN IF r.threw THEN [threw |-> TRUE, status |-> "NOT_FOUND", c |-> c]
          ELSE [threw |-> FALSE, status |-> "ok",
                c |-> [c EXCEPT !.value = Put(c.value, field, r.value)]]

decorate_expandProducts(t) ==
  /\ call[t].pc = "expandProducts" /\ call[t].op = "decorate"
  /\ LET e == expanded(call[t], "products", "product", ProductIds)
     IN call' = [call EXCEPT ![t] =
                   IF e.threw THEN Ended(e.c, e.status, <<>>)
                   ELSE decorate_afterProducts(e.c)]
  /\ UNCHANGED <<store, ncalls>>

decorate_expandOptions(t) ==
  /\ call[t].pc = "expandOptions" /\ call[t].op = "decorate"
  /\ LET e == expanded(call[t], "shipping_options", "option", OptionIds)
     IN call' = [call EXCEPT ![t] =
                   IF e.threw THEN Ended(e.c, e.status, <<>>)
                   ELSE Ended(e.c, "ok", e.c.value)]
  /\ UNCHANGED <<store, ncalls>>

\* ------------------------------------------------------- specifications
\* Calls made one at a time: a call starts when the one before it has ended.
Next ==
  \E t \in {1} :
    \/ \E id \in RawIds : retrieve(t, id)
    \/ retrieve_findOne(t)
    \/ \E id \in RawIds, upd \in UpdateInputs : update(t, id, upd)
    \/ update_updateOne(t)
    \/ \E id \in RawIds : delete(t, id)
    \/ delete_findOne(t)
    \/ delete_deleteOne(t)
    \/ \E id \in RawIds, k \in KeyInputsOne, v \in MetaVals : setMetadata(t, id, k, v)
    \/ setMetadata_updateOne(t)
    \/ \E id \in RawIds, x \in RawProductIds : addProduct(t, id, x)
    \/ addProduct_findOne(t)
    \/ addProduct_productRetrieve(t)
    \/ addProduct_push(t)
    \/ \E id \in RawIds, x \in RawProductIds : removeProduct(t, id, x)
    \/ removeProduct_findOne(t)
    \/ removeProduct_pull(t)
    \/ \E id \in RawIds, o \in RawOptionIds : addShippingOption(t, id, o)
    \/ addShippingOption_findOne(t)
    \/ addShippingOption_optionRetrieve(t)
    \/ addShippingOption_list(t)
    \/ addShippingOption_rmFindOne(t)
    \/ addShippingOption_rmPull(t)
    \/ addShippingOption_push(t)
    \/ \E id \in RawIds, o \in RawOptionIds : removeShippingOption(t, id, o)
    \/ removeShippingOption_findOne(t)
    \/ removeShippingOption_pull(t)
    \/ \E cart \in Carts : fetchCartOptions(t, cart)
    \/ fetchCartOptions_find(t)
    \/ Return(t)

Spec == Init /\ [][Next]_vars

\* Membership calls made by two callers at once, on the same product and the
\* same option: the store steps of the two calls interleave in every order.
ConcProfiles == {"p1", "p2"}
ConcProducts == {"x1"}
ConcOptions == {"o1"}

NextC ==
  \E t \in Threads :
    \/ \E id \in ConcProfiles, x \in ConcProducts : addProduct(t, id, x)
    \/ addProduct_findOne(t)
    \/ addProduct_productRetrieve(t)
    \/ addProduct_push(t)
    \/ \E id \in ConcProfiles, x \in ConcProducts : removeProduct(t, id, x)
    \/ removeProduct_findOne(t)
    \/ removeProduct_pull(t)
    \/ \E id \in ConcProfiles, o \in ConcOptions : addShippingOption(t, id, o)
    \/ addShippingOption_findOne(t)
    \/ addShippingOption_optionRetrieve(t)
    \/ addShippingOption_list(t)
    \/ addShippingOption_rmFindOne(t)
    \/ addShippingOption_rmPull(t)
    \/ addShippingOption_push(t)
    \/ \E id \in ConcProfiles, o \in ConcOptions : removeShippingOption(t, id, o)
    \/ removeShippingOption_findOne(t)
    \/ removeShippingOption_pull(t)
    \/ Return(t)

SpecC == Init /\ [][NextC]_vars

\* decorate called on its own: it reads no profile from the store.
NextD ==
  \E t \in {1} :
    \/ \E profile \in DecorateProfiles, fields \in DecorateFields,
          expandFields \in DecorateExpands :
         decorate(t, profile, fields, expandFields)
    \/ decorate_expandProducts(t)
    \/ decorate_expandOptions(t)
    \/ Return(t)

SpecD == Init /\ [][NextD]_vars

\* setMetadata with every key, next to the calls that make the metadata it
\* writes to differ: update (which can store a null metadata), delete, and
\* the membership calls that fill the lists it must leave alone.
MetaUpdates == {Upd("name", Str("n2")), Upd("metadata", JNull)}

NextM ==
  \E t \in {1} :
    \/ \E id \in RawIds, k \in KeyInputs, v \in MetaVals : setMetadata(t, id, k, v)
    \/ setMetadata_updateOne(t)
    \/ \E id \in RawIds, upd \in MetaUpdates : update(t, id, upd)
    \/ update_updateOne(t)
    \/ \E id \in ConcProfiles : delete(t, id)
    \/ delete_findOne(t)
    \/ delete_deleteOne(t)
    \/ \E id \in ConcProfiles, x \in ConcProducts : addProduct(t, id, x)
    \/ addProduct_findOne(t)
    \/ addProduct_productRetrieve(t)
    \/ addProduct_push(t)
    \/ \E id \in ConcProfiles, o \in ConcOptions : addShippingOption(t, id, o)
    \/ addShippingOption_findOne(t)
    \/ addShippingOption_optionRetrieve(t)
    \/ addShippingOption_list(t)
    \/ addShippingOption_rmFindOne(t)
    \/ addShippingOption_rmPull(t)
    \/ addShippingOption_push(t)
    \/ Return(t)

SpecM == Init /\ [][NextM]_vars

\* getProductsInCart_ applied to every cart.
NextG ==
  \E t \in {1} :
    \/ \E cart \in AllCarts : getProductsInCart(t, cart)
    \/ Return(t)

SpecG == Init /\ [][NextG]_vars

\* ------------------------------------------------------------- properties
\* The profiles whose option list holds option o.
Holders(st, o) ==
  {p \in ProfileIds : Exists(st, p) /\ o \in Members(st[p].shipping_options)}

\* Every profile's product and option lists.
Membership(st) ==
  [p \in ProfileIds |->
     IF Exists(st, p) THEN <<st[p].products, st[p].shipping_options>> ELSE <<>>]

MembershipOps == {"addProduct", "removeProduct", "addShippingOption", "removeShippingOption"}

\* The product or option a membership call names is one its collaborator knows.
KnownX(c) ==
  IF c.op \in {"addProduct", "removeProduct"} THEN c.xid \in ProductIds
  ELSE c.xid \in OptionIds

\* The call repeats the call made right before it (same operation, same
\* arguments), and the store faulted in neither.
Repeats(c) ==
  /\ c.prev.op = c.op /\ c.prev.pid = c.pid /\ c.prev.xid = c.xid
  /\ ~c.faulted

\* C1: with calls made one at a time from empty option lists, every option is
\* in at most one profile's option list in every state, the states between
\* the store steps of one addShippingOption call included.
C1_Exclusive == \A o \in OptionIds : Cardinality(Holders(store, o)) <= 1

\* C1 witness: inside an addShippingOption call, the option has been pulled
\* from the profile that held it and the push to the target is still to come.
C1_Witness ==
  /\ call[1].op = "addShippingOption" /\ call[1].pc = "push"
  /\ call[1].holder \in ProfileIds /\ call[1].holder # call[1].pid
  /\ Holders(store, call[1].xid) = {}

\* C2: addShippingOption(A, opt) completed, then addShippingOption(B, opt)
\* completed, A # B: opt is in B's option list and not in A's.
C2_MovesOption ==
  LET c == call[1] IN
  (/\ c.pc = "done" /\ c.op = "addShippingOption" /\ c.status = "ok"
   /\ c.prev.op = "addShippingOption" /\ c.prev.ok
   /\ c.prev.xid = c.xid /\ c.prev.pid # c.pid)
  => /\ c.xid \in Members(store[c.pid].shipping_options)
     /\ c.xid \notin Members(store[c.prev.pid].shipping_options)

\* C2 witness: the second of two such calls has completed.
C2_Witness ==
  LET c == call[1] IN
  /\ c.pc = "done" /\ c.op = "addShippingOption" /\ c.status = "ok"
  /\ c.prev.op = "addShippingOption" /\ c.prev.ok
  /\ c.prev.xid = c.xid /\ c.prev.pid # c.pid
  /\ c.pre[c.prev.pid] # Absent
  /\ c.xid \in Members(c.pre[c.prev.pid].shipping_options)

\* C3: under every interleaving of the store steps of addProduct,
\* removeProduct, addShippingOption and removeShippingOption calls, no product
\* list and no option list holds the same reference twice.
C3_NoDuplicates ==
  \A p \in ProfileIds :
    Exists(store, p) =>
      \A fld \in {"products", "shipping_options"} :
        store[p][fld].t = "arr" =>
          Len(store[p][fld].v) = Cardinality(Range(store[p][fld].v))

\* C4: a membership call on an existing profile and a known product/option,
\* made twice in a row with the same arguments: the second call succeeds and
\* leaves every profile's product and option lists as the first left them.
C4_Idempotent ==
  LET c == call[1] IN
  (/\ c.pc = "done" /\ c.op \in MembershipOps /\ Repeats(c)
   /\ Exists(c.pre, c.pid) /\ KnownX(c))
  => /\ c.status = "ok"
     /\ Membership(store) = Membership(c.pre)

\* C5: delete of an id that names no profile succeeds and changes nothing;
\* delete of an existing profile removes that profile and no other; so a
\* second delete of the same id leaves the store as the first left it.
C5_DeleteIdempotent ==
  LET c == call[1] IN
  (c.pc = "done" /\ c.op = "delete" /\ ~c.faulted)
  => /\ c.status = "ok"
     /\ store = IF c.pid \in ProfileIds THEN DeleteOne(c.pre, c.pid) ELSE c.pre
     /\ ~Exists(c.pre, c.pid) => store = c.pre
     /\ (c.prev.op = "delete" /\ c.prev.pid = c.pid) => store = c.pre

\* C5 witness: the second of two deletes of a profile that existed has ended.
C5_Witness ==
  LET c == call[1] IN
  /\ c.pc = "done" /\ c.op = "delete" /\ ~c.faulted
  /\ c.prev.op = "delete" /\ c.prev.pid = c.pid /\ c.prev.ok
  /\ Exists(InitStore, c.pid) /\ ~Exists(c.pre, c.pid)
  /\ c.nstore = 1

\* C6: when the store faults during a store call of retrieve, update, delete
\* or setMetadata, the call fails with DB_ERROR.
C6_FaultSurfaces ==
  LET c == call[1] IN
  (/\ c.pc = "done" /\ c.op \in {"retrieve", "update", "delete", "setMetadata"}
   /\ c.faulted)
  => c.status = "DB_ERROR"

\* C7: update with a well-formed id and an update object that carries
\* metadata, products or shipping_options, whatever the value, fails with
\* INVALID_DATA, makes no store call and changes no profile.
C7_GuardedFields ==
  LET c == call[1] IN
  (/\ c.pc = "done" /\ c.op = "update" /\ ~validateId_(c.pid).error
   /\ \E k \in {"metadata", "products", "shipping_options"} : c.fields[k] # Undef)
  => /\ c.status = "INVALID_DATA"
     /\ c.nstore = 0
     /\ store = c.pre

\* C8: retrieve, update and setMetadata with a malformed id fail with
\* INVALID_ARGUMENT, make no store call and change no profile.
C8_MalformedId ==
  LET c == call[1] IN
  (/\ c.pc = "done" /\ c.op \in {"retrieve", "update", "setMetadata"}
   /\ c.pid \notin ProfileIds)
  => /\ c.status = "INVALID_ARGUMENT"
     /\ c.nstore = 0
     /\ store = c.pre

\* C8 witness: update with a malformed id and an update object that carries
\* a guarded field has ended.
C8_Witness ==
  LET c == call[1] IN
  /\ c.pc = "done" /\ c.op = "update" /\ c.pid \notin ProfileIds
  /\ Truthy(c.fields["metadata"])
  /\ c.status = "INVALID_ARGUMENT"

RECURSIVE flattenOptions(_, _, _)
flattenOptions(st, ids, i) ==
  IF i > Len(ids) THEN <<>>
  ELSE (IF st[ids[i]].shipping_options.t = "arr"
        THEN st[ids[i]].shipping_options.v ELSE <<>>)
       \o flattenOptions(st, ids, i + 1)

\* C9: fetchCartOptions for a cart whose products are in no profile (the
\* store query answers no profile) returns the empty sequence.
C9_NoMatchEmpty ==
  LET c == call[1] IN
  (/\ c.pc = "done" /\ c.op = "fetchCartOptions" /\ ~c.faulted
   /\ c.found = <<>>)
  => c.status = "ok" /\ c.value = <<>>

\* C10: fetchCartOptions for a cart that matches one or more profiles returns
\* the records of the option ids of the matched profiles, in profile order,
\* that validateCartOption accepts.
C10_ValidatedOptions ==
  LET c == call[1] IN
  (/\ c.pc = "done" /\ c.op = "fetchCartOptions" /\ ~c.faulted
   /\ Len(c.found) >= 1)
  => /\ c.status = "ok"
     /\ c.value = validated(flattenOptions(store, c.found, 1), c.passing)

\* The fields decorate can expand, and what resolves the ids of each.
ExpandNames == {"products", "shipping_options"}
KnownIds(field) == IF field = "products" THEN ProductIds ELSE OptionIds
RecordKind(field) == IF field = "products" THEN "product" ELSE "option"

\* C11: decorate(profile, fields, expandFields) returns exactly the requested
\* fields the profile has plus _id and metadata, each as on the profile; a list
\* that expandFields names is replaced by the resolved records in the order of
\* the profile's id list; when one id of such a list does not resolve,
\* decorate fails and returns nothing.
C11_Decorate ==
  LET c == call[1]
      exp == c.expand \cap ExpandNames
      unresolved == \E f \in exp : Members(c.profile[f]) \ KnownIds(f) # {}
  IN (c.pc = "done" /\ c.op = "decorate") =>
       IF unresolved THEN c.status # "ok" /\ c.value = <<>>
       ELSE /\ c.status = "ok"
            /\ DOMAIN c.value =
                 (c.sel \cap DOMAIN c.profile) \cup {"_id", "metadata"} \cup exp
            /\ \A k \in DOMAIN c.value \ exp : c.value[k] = c.profile[k]
            /\ \A f \in exp :
                 /\ Len(c.value[f]) = Len(c.profile[f].v)
                 /\ \A i \in 1..Len(c.value[f]) :
                      c.value[f][i] = [t |-> RecordKind(f), _id |-> c.profile[f].v[i]]

\* C11 witness: decorate has returned the name of a profile with both of its
\* two-element lists expanded.
C11_Witness ==
  LET c == call[1] IN
  /\ c.pc = "done" /\ c.op = "decorate" /\ c.status = "ok"
  /\ c.sel = {"name"} /\ c.expand = ExpandNames
  /\ Len(c.profile.products.v) = 2 /\ Len(c.profile.shipping_options.v) = 2
  /\ c.value.products[1]._id = "x2"

\* Two addShippingOption calls, one per caller, are the only calls made; both
\* completed, for the same option and different profiles.
TwoAssignments ==
  /\ ncalls = 2
  /\ \A t \in Threads :
       call[t].pc = "done" /\ call[t].op = "addShippingOption" /\ call[t].status = "ok"
  /\ call[1].xid = call[2].xid /\ call[1].pid # call[2].pid

\* C12: two concurrent addShippingOption calls assign the same option to two
\* different profiles; when each call read the store before the other wrote
\* (neither found a holder), the option is in both profiles' lists once both
\* have completed; when one call did find the other's profile as holder, the
\* option is in one list only.
C12_RaceAddsToBoth ==
  TwoAssignments =>
    IF \A t \in Threads : call[t].holder = "-"
    THEN Holders(store, call[1].xid) = {call[1].pid, call[2].pid}
    ELSE Cardinality(Holders(store, call[1].xid)) = 1

\* C12 witness: both calls have completed, neither found a holder, and the
\* option is in the lists of two profiles.
C12_Witness ==
  /\ TwoAssignments
  /\ \A t \in Threads : call[t].holder = "-"
  /\ Cardinality(Holders(store, call[1].xid)) = 2

\* C13: an addShippingOption(P, opt) call that runs with no other call in
\* flight and completes leaves opt in P's option list and in no other
\* profile's, whatever profiles held opt before, P included.
C13_SoleHolderAfter ==
  \A t \in Threads :
    LET c == call[t] IN
    (/\ c.pc = "done" /\ c.op = "addShippingOption" /\ c.status = "ok"
     /\ c.serial = ncalls)
    => Holders(store, c.xid) = {c.pid}

\* Every profile's option list.
OptionLists(st) ==
  [p \in ProfileIds |-> IF Exists(st, p) THEN st[p].shipping_options ELSE <<>>]

\* C14: an addShippingOption call that fails, for whatever reason (a store
\* fault at any of its store steps included), leaves every profile's option
\* list as it was before the call.
C14_FailureChangesNothing ==
  LET c == call[1] IN
  (c.pc = "done" /\ c.op = "addShippingOption" /\ c.status # "ok")
  => OptionLists(store) = OptionLists(c.pre)

\* C15: addProduct or addShippingOption with a well-formed id of a profile
\* that does not exist, or with a product/option its collaborator cannot
\* resolve, fails, with NOT_FOUND unless the store faulted on the lookup; it
\* sends no write (its one store call is the profile lookup) and every
\* profile is unchanged.
C15_NotFoundBeforeWrite ==
  LET c == call[1] IN
  (/\ c.pc = "done" /\ c.op \in {"addProduct", "addShippingOption"}
   /\ ~validateId_(c.pid).error
   /\ (~Exists(c.pre, c.pid) \/ ~KnownX(c)))
  => /\ c.status # "ok"
     /\ ~c.faulted => c.status = "NOT_FOUND"
     /\ c.nstore = 1
     /\ store = c.pre
     /\ Membership(store) = Membership(c.pre)

\* C15 witness: addShippingOption on an existing profile that holds an
\* option, naming an option the collaborator cannot resolve, has failed.
C15_Witness ==
  LET c == call[1] IN
  /\ c.pc = "done" /\ c.op = "addShippingOption" /\ c.status = "NOT_FOUND"
  /\ Exists(c.pre, c.pid) /\ c.xid \notin OptionIds
  /\ Members(c.pre[c.pid].shipping_options) # {}

\* A stored list without the elements equal to x.
Without(list, x) ==
  IF list.t = "arr" THEN Arr(SelectSeq(list.v, LAMBDA e : e # x)) ELSE list

C17_ProductsPerProfile ==
  LET c == call[1] IN
  (c.pc = "done" /\ c.op \in {"addProduct", "removeProduct"})
  => /\ \A q \in ProfileIds \ {c.pid} : store[q] = c.pre[q]
     /\ OptionLists(store) = OptionLists(c.pre)
     /\ c.pid \in ProfileIds =>
          IF Exists(c.pre, c.pid)
          THEN /\ Exists(store, c.pid)
               /\ store[c.pid] = [c.pre[c.pid] EXCEPT !.products = store[c.pid].products]
               /\ c.status = "ok" =>
                    Members(store[c.pid].products) =
                      IF c.op = "addProduct"
                      THEN Members(c.pre[c.pid].products) \cup {c.xid}
                      ELSE Members(c.pre[c.pid].products) \ {c.xid}
               /\ c.status # "ok" => store = c.pre
          ELSE store = c.pre

\* C17 witness: a product that another profile holds has been added to a
\* profile, and both hold it.
C17_Witness ==
  LET c == call[1] IN
  /\ c.pc = "done" /\ c.op = "addProduct" /\ c.status = "ok"
  /\ c.xid \notin Members(c.pre[c.pid].products)
  /\ \E q \in ProfileIds \ {c.pid} :
       /\ Exists(c.pre, q) /\ c.xid \in Members(c.pre[q].products)
       /\ c.xid \in Members(store[q].products)
  /\ c.xid \in Members(store[c.pid].products)

RECURSIVE References(_, _)
References(cart, i) ==
  IF i > Len(cart) THEN <<>>
  ELSE (IF cart[i].t = "arr"
        THEN [k \in 1..Len(cart[i].v) |-> cart[i].v[k].product]
        ELSE <<cart[i].product>>)
       \o References(cart, i + 1)

\* Where x first occurs in s.
FirstAt(s, x) == CHOOSE i \in 1..Len(s) : s[i] = x /\ \A j \in 1..(i - 1) : s[j] # x

\* C19: for every cart of single-product line items and arrays of sub-items,
\* the list getProductsInCart_ derives holds every product id the cart
\* references and no other, holds none twice, and is in order of first
\* occurrence in the cart.
C19_DistinctInOrder ==
  LET c == call[1]
      refs == References(c.cart, 1)
      out == c.value
  IN (c.pc = "done" /\ c.op = "getProductsInCart_") =>
       /\ Range(out) = Range(refs)
       /\ Len(out) = Cardinality(Range(out))
       /\ \A i, j \in 1..Len(out) :
            i < j => FirstAt(refs, out[i]) < FirstAt(refs, out[j])

\* C19 witness: a cart of a single-product item and an array that repeats its
\* product after a new one has been reduced to the two ids, the single one first.
C19_Witness ==
  LET c == call[1] IN
  /\ c.pc = "done" /\ c.op = "getProductsInCart_"
  /\ c.cart = <<Single("x2"), Bundle(<<"x1", "x2">>)>>
  /\ c.value = <<"x2", "x1">>

====
